---- MODULE Spec2Model ----
(***************************************************************************)
(* A model of LLM_prompt_detection.py: the PDF / Word scanning passes, the *)
(* export functions and the command-line loop of main.                     *)
(*                                                                         *)
(* Text is a sequence of one-character strings, so that strip, the         *)
(* case-insensitive pattern search, the parenthesis extraction of the      *)
(* script pass and os.path.splitext are computed character by character.   *)
(* A Python dict with optional keys is a record whose DOMAIN holds the     *)
(* keys that are present; d.get(k) without a default is << >> for None     *)
(* and <<v>> for a present value.  An insertion-ordered dict that the      *)
(* program iterates (a ScanResult, all_results) is a sequence of           *)
(* <<key, value>> pairs.  Font sizes are whole numbers: a size below 1 is  *)
(* represented by 0.                                                       *)
(***************************************************************************)
EXTENDS Integers, Sequences, FiniteSets, TLC

VARIABLES
    argv,         \* file_paths, the argument list of main
    disk,         \* the input files: path -> parsed document, or what makes opening fail
    readonly,     \* the output paths that open(.., "w") / wb.save cannot write
    i,            \* 1-based position of main's loop in argv
    all_results,  \* main's all_results: <<file_path, ScanResult>> in insertion order
    writes,       \* the files written so far, in order, each with the argument it is for
    stdout,       \* the messages printed so far
    status,       \* "running", "returned", "raised" (main); "scanning", "scanned" (scan_pdf)
    result        \* the ScanResult of the scanned document

vars == <<argv, disk, readonly, i, all_results, writes, stdout, status, result>>

(***************************************************************************)
(* Bounds of the model.                                                    *)
(***************************************************************************)
MaxSpans == 2
MaxObjs == 2
MaxArgs == 3

(***************************************************************************)
(* Characters, str.lower, str.strip, substring search.                     *)
(***************************************************************************)
WHITESPACE == {" ", "\t", "\n"}

\* str.lower on the letters A-Z
LOWER_OF ==
    ("A" :> "a") @@ ("B" :> "b") @@ ("C" :> "c") @@ ("D" :> "d") @@ ("E" :> "e") @@
    ("F" :> "f") @@ ("G" :> "g") @@ ("H" :> "h") @@ ("I" :> "i") @@ ("J" :> "j") @@
    ("K" :> "k") @@ ("L" :> "l") @@ ("M" :> "m") @@ ("N" :> "n") @@ ("O" :> "o") @@
    ("P" :> "p") @@ ("Q" :> "q") @@ ("R" :> "r") @@ ("S" :> "s") @@ ("T" :> "t") @@
    ("U" :> "u") @@ ("V" :> "v") @@ ("W" :> "w") @@ ("X" :> "x") @@ ("Y" :> "y") @@
    ("Z" :> "z")

lower_char(c) == IF c \in DOMAIN LOWER_OF THEN LOWER_OF[c] ELSE c

lower(s) == [k \in DOMAIN s |-> lower_char(s[k])]

RECURSIVE lstrip(_)
lstrip(s) ==
    IF s = <<>> THEN s
    ELSE IF Head(s) \in WHITESPACE THEN lstrip(Tail(s)) ELSE s

RECURSIVE rstrip(_)
rstrip(s) ==
    IF s = <<>> THEN s
    ELSE IF s[Len(s)] \in WHITESPACE THEN rstrip(SubSeq(s, 1, Len(s) - 1)) ELSE s

strip(s) == rstrip(lstrip(s))

\* needle in haystack (case-sensitive substring test)
contains(haystack, needle) ==
    \E k \in 1..(Len(haystack) - Len(needle) + 1) :
        \A j \in 1..Len(needle) : haystack[k + j - 1] = needle[j]

PROMPT_KEYWORDS == <<
    <<"i","g","n","o","r","e"," ","p","r","e","v","i","o","u","s"," ","i","n","s","t","r","u","c","t","i","o","n","s">>,
    <<"y","o","u"," ","a","r","e"," ","n","o","w">>,
    <<"d","i","s","r","e","g","a","r","d"," ","e","a","r","l","i","e","r">>,
    <<"p","r","e","t","e","n","d"," ","t","o">>,
    <<"o","u","t","p","u","t"," ","t","h","e"," ","f","o","l","l","o","w","i","n","g">>,
    <<"a","s"," ","a"," ","l","a","n","g","u","a","g","e"," ","m","o","d","e","l">>,
    <<"r","e","p","e","a","t"," ","a","f","t","e","r"," ","m","e">>,
    <<"p","r","i","n","t"," ","t","h","i","s"," ","e","x","a","c","t","l","y">>,
    <<"s","i","m","u","l","a","t","e"," ","r","e","s","p","o","n","s","e">>,
    <<"r","e","s","p","o","n","d"," ","w","i","t","h">>,
    <<"c","o","m","p","l","e","t","e"," ","t","h","e"," ","p","r","o","m","p","t">> >>

\* re.compile(re.escape(kw), re.IGNORECASE): a pattern is its literal,
\* compared without regard to letter case
RECURSIVE compile(_)
compile(kw) == IF kw = <<>> THEN <<>> ELSE <<lower_char(Head(kw))>> \o compile(Tail(kw))

RECURSIVE compile_all(_)
compile_all(keywords) ==
    IF keywords = <<>> THEN <<>> ELSE <<compile(Head(keywords))>> \o compile_all(Tail(keywords))

PROMPT_PATTERNS == compile_all(PROMPT_KEYWORDS)

\* pattern.search(text)
search(pattern, text) == contains(lower(text), pattern)

(***************************************************************************)
(* dict.get                                                                *)
(***************************************************************************)
get(d, key) == IF key \in DOMAIN d THEN <<d[key]>> ELSE <<>>

get_default(d, key, default) == IF key \in DOMAIN d THEN d[key] ELSE default

WHITE == 16777215

DEFAULT_COLOR == 0

DEFAULT_SIZE == 12

SMALL_LIMIT == 1

(***************************************************************************)
(* PDF scanning                                                            *)
(***************************************************************************)
\* line 39 with "and" in place of "or"
is_invisible_and(span) ==
    LET color == get_default(span, "color", DEFAULT_COLOR)
        fontsize == get_default(span, "size", DEFAULT_SIZE)
    IN  color = WHITE /\ fontsize < SMALL_LIMIT

is_invisible(span) ==
    LET color == get_default(span, "color", DEFAULT_COLOR)
        fontsize == get_default(span, "size", DEFAULT_SIZE)
    IN  color = WHITE \/ fontsize < SMALL_LIMIT

\* lines 51-60: one append per pattern that matches
RECURSIVE visible_patterns(_, _, _, _, _)
visible_patterns(findings, span, text, page_num, k) ==
    IF k > Len(PROMPT_PATTERNS) THEN findings
    ELSE visible_patterns(
            IF search(PROMPT_PATTERNS[k], text)
            THEN Append(findings,
                    [type |-> "text",
                     page |-> page_num + 1,
                     text |-> text,
                     font_size |-> get(span, "size"),
                     color |-> get(span, "color"),
                     invisible |-> is_invisible(span)])
            ELSE findings,
            span, text, page_num, k + 1)

\* lines 47-60
RECURSIVE visible_spans(_, _, _, _)
visible_spans(findings, spans, page_num, k) ==
    IF k > Len(spans) THEN findings
    ELSE LET span == spans[k]
             text == strip(get_default(span, "text", <<>>))
         IN  visible_spans(
                IF text = <<>> THEN findings
                ELSE visible_patterns(findings, span, text, page_num, 1),
                spans, page_num, k + 1)

\* lines 46-60
RECURSIVE visible_lines(_, _, _, _)
visible_lines(findings, lines, page_num, k) ==
    IF k > Len(lines) THEN findings
    ELSE visible_lines(
            visible_spans(findings, get_default(lines[k], "spans", <<>>), page_num, 1),
            lines, page_num, k + 1)

\* lines 45-60
RECURSIVE visible_blocks(_, _, _, _)
visible_blocks(findings, blocks, page_num, k) ==
    IF k > Len(blocks) THEN findings
    ELSE visible_blocks(
            visible_lines(findings, get_default(blocks[k], "lines", <<>>), page_num, 1),
            blocks, page_num, k + 1)

\* lines 43-60; page_num is enumerate's 0-based index
RECURSIVE visible_pages(_, _, _)
visible_pages(findings, pages, page_num) ==
    IF page_num >= Len(pages) THEN findings
    ELSE visible_pages(
            visible_blocks(findings, pages[page_num + 1].blocks, page_num, 1),
            pages, page_num + 1)

scan_pdf_visible_text(doc) == visible_pages(<<>>, doc.pages, 0)

\* lines 69-75
RECURSIVE metadata_patterns(_, _, _, _)
metadata_patterns(findings, key, value, k) ==
    IF k > Len(PROMPT_PATTERNS) THEN findings
    ELSE metadata_patterns(
            IF search(PROMPT_PATTERNS[k], value)
            THEN Append(findings, [type |-> "metadata", field |-> key, text |-> value])
            ELSE findings,
            key, value, k + 1)

\* lines 66-75; items is the sequence of <<key, value>> of metadata.items()
RECURSIVE metadata_items(_, _, _)
metadata_items(findings, items, k) ==
    IF k > Len(items) THEN findings
    ELSE metadata_items(
            IF items[k][2] = <<>> THEN findings
            ELSE metadata_patterns(findings, items[k][1], items[k][2], 1),
            items, k + 1)

\* doc.metadata or {} : a document without metadata has metadata = << >>
scan_pdf_metadata(doc) == metadata_items(<<>>, doc.metadata, 1)

\* position of the first occurrence of c in s at or after from, 0 if none
find_char(s, c, from) ==
    IF \E k \in from..Len(s) : s[k] = c
    THEN CHOOSE k \in from..Len(s) : s[k] = c /\ \A j \in from..(k - 1) : s[j] # c
    ELSE 0

\* re.findall(r"\((.*?)\)", obj, re.DOTALL): the shortest "(" ... ")" groups, left to right
RECURSIVE findall_parens(_, _)
findall_parens(obj, from) ==
    LET open == find_char(obj, "(", from)
        close == IF open = 0 THEN 0 ELSE find_char(obj, ")", open + 1)
    IN  IF open = 0 \/ close = 0 THEN <<>>
        ELSE <<SubSeq(obj, open + 1, close - 1)>> \o findall_parens(obj, close + 1)

JAVASCRIPT_MARK == <<"/","J","a","v","a","S","c","r","i","p","t">>

JS_MARK == <<"/","J","S">>

\* lines 86-92
RECURSIVE javascript_patterns(_, _, _, _)
javascript_patterns(findings, xref, script, k) ==
    IF k > Len(PROMPT_PATTERNS) THEN findings
    ELSE javascript_patterns(
            IF search(PROMPT_PATTERNS[k], script)
            THEN Append(findings, [type |-> "javascript", xref |-> xref, text |-> strip(script)])
            ELSE findings,
            xref, script, k + 1)

\* lines 85-92
RECURSIVE javascript_scripts(_, _, _, _)
javascript_scripts(findings, xref, script_match, k) ==
    IF k > Len(script_match) THEN findings
    ELSE javascript_scripts(
            javascript_patterns(findings, xref, script_match[k], 1),
            xref, script_match, k + 1)

\* lines 80-94 with "except Exception: break" in place of "continue"
RECURSIVE javascript_objects_break(_, _, _)
javascript_objects_break(findings, table, xref) ==
    IF xref >= Len(table) THEN findings
    ELSE LET entry == table[xref + 1]
         IN  IF entry.raises
             THEN findings
             ELSE javascript_objects_break(
                    IF contains(entry.obj, JAVASCRIPT_MARK) \/ contains(entry.obj, JS_MARK)
                    THEN javascript_scripts(findings, xref, findall_parens(entry.obj, 1), 1)
                    ELSE findings,
                    table, xref + 1)

\* lines 80-94; xref is range's 0-based index; an entry that raises in
\* doc.xref_object(i) is skipped by the except clause
RECURSIVE javascript_objects(_, _, _)
javascript_objects(findings, table, xref) ==
    IF xref >= Len(table) THEN findings
    ELSE LET entry == table[xref + 1]
         IN  javascript_objects(
                IF entry.raises THEN findings
                ELSE IF contains(entry.obj, JAVASCRIPT_MARK) \/ contains(entry.obj, JS_MARK)
                     THEN javascript_scripts(findings, xref, findall_parens(entry.obj, 1), 1)
                     ELSE findings,
                table, xref + 1)

scan_pdf_javascript(doc) == javascript_objects(<<>>, doc.xref, 0)

\* lines 109-122 with the two tests in the other order
bucket_size_first(acc, span, text, page_num) ==
    LET color == get_default(span, "color", DEFAULT_COLOR)
        fontsize == get_default(span, "size", DEFAULT_SIZE)
        entry == [page |-> page_num + 1, font_size |-> fontsize, color |-> color, text |-> text]
    IN  IF fontsize < SMALL_LIMIT THEN <<acc[1], Append(acc[2], entry)>>
        ELSE IF color = WHITE THEN <<Append(acc[1], entry), acc[2]>>
        ELSE acc

\* lines 109-122 with "if" in place of "elif"
bucket_both(acc, span, text, page_num) ==
    LET color == get_default(span, "color", DEFAULT_COLOR)
        fontsize == get_default(span, "size", DEFAULT_SIZE)
        entry == [page |-> page_num + 1, font_size |-> fontsize, color |-> color, text |-> text]
    IN  <<IF color = WHITE THEN Append(acc[1], entry) ELSE acc[1],
          IF fontsize < SMALL_LIMIT THEN Append(acc[2], entry) ELSE acc[2]>>

\* lines 109-122 with "fontsize <= 1"
bucket_le(acc, span, text, page_num) ==
    LET color == get_default(span, "color", DEFAULT_COLOR)
        fontsize == get_default(span, "size", DEFAULT_SIZE)
        entry == [page |-> page_num + 1, font_size |-> fontsize, color |-> color, text |-> text]
    IN  IF color = WHITE THEN <<Append(acc[1], entry), acc[2]>>
        ELSE IF fontsize <= SMALL_LIMIT THEN <<acc[1], Append(acc[2], entry)>>
        ELSE acc

\* lines 107-122; acc is <<invisible_texts, small_texts>>
bucket(acc, span, text, page_num) ==
    LET color == get_default(span, "color", DEFAULT_COLOR)
        fontsize == get_default(span, "size", DEFAULT_SIZE)
        entry == [page |-> page_num + 1, font_size |-> fontsize, color |-> color, text |-> text]
    IN  IF color = WHITE THEN <<Append(acc[1], entry), acc[2]>>
        ELSE IF fontsize < SMALL_LIMIT THEN <<acc[1], Append(acc[2], entry)>>
        ELSE acc

\* lines 103-122
RECURSIVE hidden_spans(_, _, _, _)
hidden_spans(acc, spans, page_num, k) ==
    IF k > Len(spans) THEN acc
    ELSE LET span == spans[k]
             text == strip(get_default(span, "text", <<>>))
         IN  hidden_spans(
                IF text = <<>> THEN acc ELSE bucket(acc, span, text, page_num),
                spans, page_num, k + 1)

\* lines 102-122
RECURSIVE hidden_lines(_, _, _, _)
hidden_lines(acc, lines, page_num, k) ==
    IF k > Len(lines) THEN acc
    ELSE hidden_lines(
            hidden_spans(acc, get_default(lines[k], "spans", <<>>), page_num, 1),
            lines, page_num, k + 1)

\* lines 101-122
RECURSIVE hidden_blocks(_, _, _, _)
hidden_blocks(acc, blocks, page_num, k) ==
    IF k > Len(blocks) THEN acc
    ELSE hidden_blocks(
            hidden_lines(acc, get_default(blocks[k], "lines", <<>>), page_num, 1),
            blocks, page_num, k + 1)

\* lines 99-122
RECURSIVE hidden_pages(_, _, _)
hidden_pages(acc, pages, page_num) ==
    IF page_num >= Len(pages) THEN acc
    ELSE hidden_pages(
            hidden_blocks(acc, pages[page_num + 1].blocks, page_num, 1),
            pages, page_num + 1)

\* returns the pair <<invisible_texts, small_texts>>
scan_pdf_invisible_and_small_text(doc) == hidden_pages(<<<<>>, <<>>>>, doc.pages, 0)

\* fitz.open(path): the document stored under path, or an error
fitz_open(path) ==
    IF path \in DOMAIN disk /\ disk[path].format = "pdf"
    THEN [ok |-> TRUE, doc |-> disk[path].doc]
    ELSE [ok |-> FALSE, error |-> "cannot open document"]

\* a ScanResult: the dict literal of lines 127-133 in insertion order
scan_pdf(path) ==
    LET opened == fitz_open(path)
    IN  IF ~opened.ok THEN [ok |-> FALSE, error |-> opened.error]
        ELSE LET doc == opened.doc
             IN  [ok |-> TRUE,
                  results |-> <<
                    <<"visible_matches", scan_pdf_visible_text(doc)>>,
                    <<"metadata_matches", scan_pdf_metadata(doc)>>,
                    <<"js_matches", scan_pdf_javascript(doc)>>,
                    <<"invisible_texts", scan_pdf_invisible_and_small_text(doc)[1]>>,
                    <<"small_texts", scan_pdf_invisible_and_small_text(doc)[2]>> >>]

(***************************************************************************)
(* Word scanning                                                           *)
(***************************************************************************)
\* Document(path): the paragraphs stored under path, or an error
docx_open(path) ==
    IF path \in DOMAIN disk /\ disk[path].format = "docx"
    THEN [ok |-> TRUE, paragraphs |-> disk[path].paragraphs]
    ELSE [ok |-> FALSE, error |-> "cannot open document"]

\* lines 143-148
RECURSIVE docx_patterns(_, _, _)
docx_patterns(findings, text, k) ==
    IF k > Len(PROMPT_PATTERNS) THEN findings
    ELSE docx_patterns(
            IF search(PROMPT_PATTERNS[k], text)
            THEN Append(findings, [type |-> "text", paragraph |-> text])
            ELSE findings,
            text, k + 1)

\* lines 139-148
RECURSIVE docx_paragraphs(_, _, _)
docx_paragraphs(findings, paragraphs, k) ==
    IF k > Len(paragraphs) THEN findings
    ELSE LET text == strip(paragraphs[k])
         IN  docx_paragraphs(
                IF text = <<>> THEN findings ELSE docx_patterns(findings, text, 1),
                paragraphs, k + 1)

scan_docx(path) ==
    LET opened == docx_open(path)
    IN  IF ~opened.ok THEN [ok |-> FALSE, error |-> opened.error]
        ELSE [ok |-> TRUE,
              results |-> << <<"visible_matches", docx_paragraphs(<<>>, opened.paragraphs, 1)>> >>]

(***************************************************************************)
(* Unified handler                                                         *)
(***************************************************************************)
\* the last index of c in s, 0 if none
rfind(s, c) ==
    IF \E k \in DOMAIN s : s[k] = c
    THEN CHOOSE k \in DOMAIN s : s[k] = c /\ \A j \in (k + 1)..Len(s) : s[j] # c
    ELSE 0

\* os.path.splitext: the extension starts at the last dot of the last path
\* component, unless that component has only dots before it
splitext(p) ==
    LET sepIndex == rfind(p, "/")
        dotIndex == rfind(p, ".")
    IN  IF dotIndex > sepIndex /\ \E k \in (sepIndex + 1)..(dotIndex - 1) : p[k] # "."
        THEN <<SubSeq(p, 1, dotIndex - 1), SubSeq(p, dotIndex, Len(p))>>
        ELSE <<p, <<>>>>

EXT_PDF == <<".","p","d","f">>

EXT_DOCX == <<".","d","o","c","x">>

\* lines 152-159 with the unsupported type scanned as an empty document
detect_prompts_lenient(file_path) ==
    LET ext == lower(splitext(file_path)[2])
    IN  IF ext = EXT_PDF THEN scan_pdf(file_path)
        ELSE IF ext = EXT_DOCX THEN scan_docx(file_path)
        ELSE [ok |-> TRUE, results |-> << <<"visible_matches", <<>>>> >>]

\* the returned ScanResult, or the exception raised
detect_prompts(file_path) ==
    LET ext == lower(splitext(file_path)[2])
    IN  IF ext = EXT_PDF THEN scan_pdf(file_path)
        ELSE IF ext = EXT_DOCX THEN scan_docx(file_path)
        ELSE [ok |-> FALSE, error |-> "Unsupported file type"]

(***************************************************************************)
(* Export functions                                                        *)
(***************************************************************************)
DIGITS == <<"0","1","2","3","4","5","6","7","8","9">>

RECURSIVE json_int(_)
json_int(n) ==
    IF n < 10 THEN <<DIGITS[n + 1]>>
    ELSE json_int(n \div 10) \o <<DIGITS[(n % 10) + 1]>>

json_char(c) ==
    CASE c = "\t" -> <<"\\", "t">>
      [] c = "\n" -> <<"\\", "n">>
      [] c = "\"" -> <<"\\", "\"">>
      [] c = "\\" -> <<"\\", "\\">>
      [] OTHER -> <<c>>

RECURSIVE json_chars(_)
json_chars(text) ==
    IF text = <<>> THEN <<>> ELSE json_char(Head(text)) \o json_chars(Tail(text))

\* one value, by the kind of the field that holds it
json_value(kind, v) ==
    CASE kind = "name" -> <<"\"", v, "\"">>
      [] kind = "text" -> <<"\"">> \o json_chars(v) \o <<"\"">>
      [] kind = "int" -> json_int(v)
      [] kind = "optint" -> IF v = <<>> THEN <<"null">> ELSE json_int(v[1])
      [] kind = "bool" -> IF v THEN <<"true">> ELSE <<"false">>

\* the keys of a Finding in the order of the dict literal that built it
\* (lines 53-60, 71-75, 88-92, 110-115, 145-148), each with its kind
item_fields(item) ==
    CASE "invisible" \in DOMAIN item ->
            << <<"type", "name">>, <<"page", "int">>, <<"text", "text">>,
               <<"font_size", "optint">>, <<"color", "optint">>, <<"invisible", "bool">> >>
      [] "field" \in DOMAIN item ->
            << <<"type", "name">>, <<"field", "name">>, <<"text", "text">> >>
      [] "xref" \in DOMAIN item ->
            << <<"type", "name">>, <<"xref", "int">>, <<"text", "text">> >>
      [] "paragraph" \in DOMAIN item ->
            << <<"type", "name">>, <<"paragraph", "text">> >>
      [] OTHER ->
            << <<"page", "int">>, <<"font_size", "int">>, <<"color", "int">>, <<"text", "text">> >>

RECURSIVE json_members(_, _, _)
json_members(item, fields, k) ==
    IF k > Len(fields) THEN <<>>
    ELSE (IF k > 1 THEN <<",", " ">> ELSE <<>>)
         \o <<"\"", fields[k][1], "\"", ":", " ">>
         \o json_value(fields[k][2], item[fields[k][1]])
         \o json_members(item, fields, k + 1)

\* json.dumps(item, ensure_ascii=False)
json_dumps(item) == <<"{">> \o json_members(item, item_fields(item), 1) \o <<"}">>

\* lines 167-168
RECURSIVE rows_of_items(_, _, _, _)
rows_of_items(rows, prefix, key, items) ==
    IF items = <<>> THEN rows
    ELSE rows_of_items(Append(rows, prefix \o <<key, json_dumps(Head(items))>>),
                       prefix, key, Tail(items))

\* lines 166-168; results is the sequence of results.items()
RECURSIVE rows_of_results(_, _, _)
rows_of_results(rows, prefix, results) ==
    IF results = <<>> THEN rows
    ELSE rows_of_results(rows_of_items(rows, prefix, Head(results)[1], Head(results)[2]),
                         prefix, Tail(results))

\* lines 185-188 and 195-198
RECURSIVE rows_of_all(_, _)
rows_of_all(rows, all) ==
    IF all = <<>> THEN rows
    ELSE rows_of_all(rows_of_results(rows, <<Head(all)[1]>>, Head(all)[2]), Tail(all))

\* open(out_path, "w") and wb.save(out_path) raise for a path that cannot be written
can_write(out_path) == out_path \notin readonly

\* the file written, or the exception raised
save_to_csv(results, out_path) ==
    IF ~can_write(out_path) THEN [ok |-> FALSE, files |-> <<>>]
    ELSE [ok |-> TRUE,
          files |-> <<[path |-> out_path, kind |-> "csv",
                       rows |-> rows_of_results(<<<<"Category", "Details">>>>, <<>>, results)]>>]

save_to_excel(results, out_path) ==
    IF ~can_write(out_path) THEN [ok |-> FALSE, files |-> <<>>]
    ELSE [ok |-> TRUE,
          files |-> <<[path |-> out_path, kind |-> "xlsx", title |-> "LLM Prompt Detection",
                       rows |-> rows_of_results(<<<<"Category", "Details">>>>, <<>>, results)]>>]

\* the CSV is written first; the workbook is built in memory and saved last
save_consolidated(all, csv_out, excel_out) ==
    LET rows == rows_of_all(<<<<"File", "Category", "Details">>>>, all)
        csv == [path |-> csv_out, kind |-> "csv", rows |-> rows]
        xlsx == [path |-> excel_out, kind |-> "xlsx", title |-> "LLM Prompt Detection",
                 rows |-> rows]
    IN  IF ~can_write(csv_out) THEN [ok |-> FALSE, files |-> <<>>]
        ELSE IF ~can_write(excel_out) THEN [ok |-> FALSE, files |-> <<csv>>]
        ELSE [ok |-> TRUE, files |-> <<csv, xlsx>>]

(***************************************************************************)
(* CLI entry                                                               *)
(***************************************************************************)
\* d[key] = value with a re-assigned key moved to the end
dict_set_move_to_end(d, key, value) ==
    SelectSeq(d, LAMBDA e : e[1] # key) \o <<<<key, value>>>>

\* d[key] = value on an insertion-ordered dict: a new key is appended, an
\* existing key keeps its position
dict_set(d, key, value) ==
    IF \E k \in DOMAIN d : d[k][1] = key
    THEN [k \in DOMAIN d |-> IF d[k][1] = key THEN <<key, value>> ELSE d[k]]
    ELSE Append(d, <<key, value>>)

\* line 224 with "> 0"
multiple_files_any(all) == Len(all) > 0

\* line 224
multiple_files(all) == Len(all) > 1

RESULTS_CSV == <<"_","r","e","s","u","l","t","s",".","c","s","v">>

RESULTS_XLSX == <<"_","r","e","s","u","l","t","s",".","x","l","s","x">>

CONSOLIDATED_CSV == <<"c","o","n","s","o","l","i","d","a","t","e","d","_","r","e","s","u","l","t","s",".","c","s","v">>

CONSOLIDATED_XLSX == <<"c","o","n","s","o","l","i","d","a","t","e","d","_","r","e","s","u","l","t","s",".","x","l","s","x">>

\* the files a call wrote, each marked with the argument it was written for
\* (<< >> for the consolidated report)
written_for(file_path, files) == [k \in DOMAIN files |-> [for |-> file_path, file |-> files[k]]]

\* lines 205-209: detect_prompts raises, the failure is printed, next file
MainFailed ==
    /\ status = "running"
    /\ i <= Len(argv)
    /\ LET r == detect_prompts(argv[i])
       IN  /\ ~r.ok
           /\ stdout' = Append(stdout, [msg |-> "failed", file |-> argv[i], error |-> r.error])
    /\ i' = i + 1
    /\ UNCHANGED <<argv, disk, readonly, all_results, writes, status, result>>

\* lines 205-221: the file is scanned, printed and exported
MainSaved ==
    /\ status = "running"
    /\ i <= Len(argv)
    /\ LET r == detect_prompts(argv[i])
           base == splitext(argv[i])[1]
       IN  /\ r.ok
           /\ can_write(base \o RESULTS_CSV)
           /\ can_write(base \o RESULTS_XLSX)
           /\ LET csv == save_to_csv(r.results, base \o RESULTS_CSV)
                  xlsx == save_to_excel(r.results, base \o RESULTS_XLSX)
              IN  /\ all_results' = dict_set(all_results, argv[i], r.results)
                  /\ writes' = writes \o written_for(argv[i], csv.files \o xlsx.files)
                  /\ stdout' = stdout \o
                        <<[msg |-> "results", file |-> argv[i], results |-> r.results],
                          [msg |-> "saved", file |-> argv[i], base |-> base]>>
    /\ i' = i + 1
    /\ UNCHANGED <<argv, disk, readonly, status, result>>

\* lines 211-220: save_to_csv or save_to_excel raises outside the try
\* block, and the exception leaves main
MainExportRaises ==
    /\ status = "running"
    /\ i <= Len(argv)
    /\ LET r == detect_prompts(argv[i])
           base == splitext(argv[i])[1]
       IN  /\ ~(can_write(base \o RESULTS_CSV) /\ can_write(base \o RESULTS_XLSX))
           /\ r.ok
           /\ LET csv == save_to_csv(r.results, base \o RESULTS_CSV)
              IN  /\ all_results' = dict_set(all_results, argv[i], r.results)
                  /\ writes' = writes \o written_for(argv[i],
                                    IF csv.ok THEN csv.files ELSE <<>>)
                  /\ stdout' = Append(stdout,
                        [msg |-> "results", file |-> argv[i], results |-> r.results])
    /\ status' = "raised"
    /\ UNCHANGED <<argv, disk, readonly, i, result>>

\* lines 224-226: the consolidated report is written and main returns
MainConsolidated ==
    /\ status = "running"
    /\ i > Len(argv)
    /\ multiple_files(all_results)
    /\ LET saved == save_consolidated(all_results, CONSOLIDATED_CSV, CONSOLIDATED_XLSX)
       IN  /\ saved.ok
           /\ writes' = writes \o written_for(<<>>, saved.files)
    /\ stdout' = Append(stdout, [msg |-> "consolidated"])
    /\ status' = "returned"
    /\ UNCHANGED <<argv, disk, readonly, i, all_results, result>>

\* lines 224-225: save_consolidated raises, and the exception leaves main
MainConsolidatedRaises ==
    /\ status = "running"
    /\ i > Len(argv)
    /\ multiple_files(all_results)
    /\ LET saved == save_consolidated(all_results, CONSOLIDATED_CSV, CONSOLIDATED_XLSX)
       IN  /\ ~saved.ok
           /\ writes' = writes \o written_for(<<>>, saved.files)
    /\ status' = "raised"
    /\ UNCHANGED <<argv, disk, readonly, i, all_results, stdout, result>>

\* line 224: no consolidated report, main returns
MainReturns ==
    /\ status = "running"
    /\ i > Len(argv)
    /\ ~multiple_files(all_results)
    /\ status' = "returned"
    /\ UNCHANGED <<argv, disk, readonly, i, all_results, writes, stdout, result>>

(***************************************************************************)
(* Documents.  A parsed PDF is [pages, metadata, xref]: pages is the       *)
(* sequence of page.get_text("dict") results, each [blocks |-> ...]; a     *)
(* text block has "lines", an image block has none; a line has "spans".    *)
(* xref is the low-level object table: an entry either raises in           *)
(* doc.xref_object or yields its raw text.                                 *)
(***************************************************************************)
TEXT_BLANK == <<" "," ">>

TEXT_PLAIN == <<"h","i">>

TEXT_ONE == <<" ","Y","o","u"," ","A","r","e"," ","N","O","W","\t">>

TEXT_TWO == <<"y","o","u"," ","a","r","e"," ","n","o","w"," ","p","r","e","t","e","n","d"," ","t","o">>

SPANS == {
    [color |-> 0, size |-> 12],
    [text |-> TEXT_BLANK, color |-> WHITE, size |-> 0],
    [text |-> TEXT_PLAIN, color |-> WHITE, size |-> 12],
    [text |-> TEXT_PLAIN, color |-> 0, size |-> 0],
    [text |-> TEXT_PLAIN, color |-> 0, size |-> 12],
    [text |-> TEXT_ONE],
    [text |-> TEXT_ONE, color |-> WHITE, size |-> 0],
    [text |-> TEXT_ONE, color |-> 0, size |-> 0],
    [text |-> TEXT_ONE, color |-> 16777214, size |-> 1],
    [text |-> TEXT_TWO, color |-> 0, size |-> 12] }

\* where a span starts relative to the span before it: on a new page, on a
\* new page after an empty page, in a new block after an image block, in a
\* new block, on a new line, or on the same line
BREAKS == {"page", "skip", "image", "block", "line", "span"}

FIRST_BREAKS == {"page", "skip", "image"}

add_span(pages, span, brk) ==
    LET newLine == [spans |-> <<span>>]
        textBlock == [type |-> 0, lines |-> <<newLine>>]
        imageBlock == [type |-> 1]
        P == Len(pages)
        B == Len(pages[P].blocks)
        L == Len(pages[P].blocks[B].lines)
    IN  CASE brk = "page" -> Append(pages, [blocks |-> <<textBlock>>])
          [] brk = "skip" -> pages \o <<[blocks |-> <<>>], [blocks |-> <<textBlock>>]>>
          [] brk = "image" ->
                IF P = 0 THEN <<[blocks |-> <<imageBlock, textBlock>>]>>
                ELSE [pages EXCEPT ![P].blocks = @ \o <<imageBlock, textBlock>>]
          [] brk = "block" -> [pages EXCEPT ![P].blocks = Append(@, textBlock)]
          [] brk = "line" -> [pages EXCEPT ![P].blocks[B].lines = Append(@, newLine)]
          [] brk = "span" -> [pages EXCEPT ![P].blocks[B].lines[L].spans = Append(@, span)]

RECURSIVE build_pages(_, _, _)
build_pages(pages, items, k) ==
    IF k > Len(items) THEN pages
    ELSE build_pages(add_span(pages, items[k][1], items[k][2]), items, k + 1)

SpanLists(n) ==
    {items \in [1..n -> SPANS \X BREAKS] : n > 0 => items[1][2] \in FIRST_BREAKS}

TextDoc(items) == [pages |-> build_pages(<<>>, items, 1), metadata |-> <<>>, xref |-> <<>>]

OBJECTS == {
    [raises |-> TRUE],
    [raises |-> FALSE, obj |-> <<"/","J","S","(","R","e","s","p","o","n","d"," ","W","i","t","h"," ","1",")">>],
    [raises |-> FALSE, obj |-> <<"/","J","a","v","a","S","c","r","i","p","t","(","h","i",")","(",
                                   " ","y","o","u"," ","a","r","e"," ","n","o","w"," ","p","r","e","t","e","n","d"," ","t","o",")">>],
    [raises |-> FALSE, obj |-> <<"(","y","o","u"," ","a","r","e"," ","n","o","w",")">>],
    [raises |-> FALSE, obj |-> <<"/","J","S"," ","7"," ","0"," ","R">>] }

METADATA == {
    <<>>,
    << <<"title", <<"Y","o","u"," ","a","r","e"," ","n","o","w"," ","B","o","b">>>>,
       <<"author", <<>>>>,
       <<"subject", TEXT_PLAIN>> >> }

ScriptDoc(m, table) == [pages |-> <<>>, metadata |-> m, xref |-> table]

SCAN_PATH == <<"x",".","p","d","f">>

(***************************************************************************)
(* The scan of one document: scan_pdf applied to a document drawn from     *)
(* the bounded sets above.                                                 *)
(***************************************************************************)
InitScan ==
    /\ \/ \E n \in 0..MaxSpans : \E items \in SpanLists(n) :
             disk = [p \in {SCAN_PATH} |-> [format |-> "pdf", doc |-> TextDoc(items)]]
       \/ \E n \in 1..MaxObjs : \E table \in [1..n -> OBJECTS] : \E m \in METADATA :
             disk = [p \in {SCAN_PATH} |-> [format |-> "pdf", doc |-> ScriptDoc(m, table)]]
    /\ argv = <<SCAN_PATH>>
    /\ readonly = {}
    /\ i = 1
    /\ all_results = <<>>
    /\ writes = <<>>
    /\ stdout = <<>>
    /\ status = "scanning"
    /\ result = <<>>

ScanPdf ==
    /\ status = "scanning"
    /\ result' = scan_pdf(argv[i]).results
    /\ status' = "scanned"
    /\ UNCHANGED <<argv, disk, readonly, i, all_results, writes, stdout>>

NextScan == ScanPdf

SpecScan == InitScan /\ [][NextScan]_vars

Range(seq) == {seq[k] : k \in DOMAIN seq}

(***************************************************************************)
(* A run of main: the argument list is drawn from the files below, and     *)
(* the set of output paths that cannot be written from READONLY_PATHS.     *)
(***************************************************************************)
PATH_A_PDF == <<"d","/","a",".","p","d","f">>

PATH_B_PDF == <<"b",".","P","D","F">>

PATH_C_DOCX == <<"c",".","d","o","c","x">>

PATH_A_DOCX == <<"d","/","a",".","d","o","c","x">>

PATH_BAD_PDF == <<"b","a","d",".","p","d","f">>

PATH_N_TXT == <<"n",".","t","x","t">>

PATHS == {PATH_A_PDF, PATH_B_PDF, PATH_C_DOCX, PATH_A_DOCX, PATH_BAD_PDF, PATH_N_TXT}

DOC_A ==
    [pages |-> build_pages(<<>>,
        << <<[text |-> TEXT_ONE, color |-> WHITE, size |-> 0], "page">>,
           <<[text |-> TEXT_PLAIN, color |-> 0, size |-> 0], "span">> >>, 1),
     metadata |-> << <<"title", <<"Y","o","u"," ","a","r","e"," ","n","o","w"," ","B","o","b">>>> >>,
     xref |-> << [raises |-> TRUE],
                 [raises |-> FALSE, obj |-> <<"/","J","S","(","R","e","s","p","o","n","d"," ","W","i","t","h"," ","1",")">>] >>]

DOC_B ==
    [pages |-> build_pages(<<>>,
        << <<[text |-> TEXT_TWO, color |-> 0, size |-> 12], "page">> >>, 1),
     metadata |-> <<>>,
     xref |-> <<>>]

DISK ==
    [p \in PATHS |->
        CASE p = PATH_A_PDF -> [format |-> "pdf", doc |-> DOC_A]
          [] p = PATH_B_PDF -> [format |-> "pdf", doc |-> DOC_B]
          [] p = PATH_C_DOCX -> [format |-> "docx", paragraphs |-> <<TEXT_BLANK, TEXT_ONE>>]
          [] p = PATH_A_DOCX -> [format |-> "docx", paragraphs |-> <<TEXT_PLAIN>>]
          [] p = PATH_BAD_PDF -> [format |-> "corrupt"]
          [] p = PATH_N_TXT -> [format |-> "text"]]

READONLY_PATHS == {
    <<"d","/","a">> \o RESULTS_CSV,
    <<"b">> \o RESULTS_XLSX,
    CONSOLIDATED_XLSX }

Init ==
    /\ argv \in UNION {[1..n -> PATHS] : n \in 1..MaxArgs}
    /\ disk = DISK
    /\ readonly \in SUBSET READONLY_PATHS
    /\ i = 1
    /\ all_results = <<>>
    /\ writes = <<>>
    /\ stdout = <<>>
    /\ status = "running"
    /\ result = <<>>

Next ==
    \/ MainFailed
    \/ MainSaved
    \/ MainExportRaises
    \/ MainConsolidated
    \/ MainConsolidatedRaises
    \/ MainReturns

Spec == Init /\ [][Next]_vars

(***************************************************************************)
(* Properties of a run of main (checked under Spec).                       *)
(***************************************************************************)
IsFailed(m) == m.msg = "failed"

IsSaved(m) == m.msg = "saved"

IsDone(m) == m.msg = "failed" \/ m.msg = "saved"

FileOf(m) == m.file

\* the arguments main has finished with, in order, and those saved
Attempted == [k \in DOMAIN SelectSeq(stdout, IsDone) |-> SelectSeq(stdout, IsDone)[k].file]

Saved == [k \in DOMAIN SelectSeq(stdout, IsSaved) |-> SelectSeq(stdout, IsSaved)[k].file]

\* what the documentation says must fail: an extension other than .pdf and
\* .docx in any letter case, or a document that cannot be opened
MustFail(file_path) ==
    \/ file_path \in {PATH_N_TXT, PATH_BAD_PDF}
    \/ file_path \notin DOMAIN disk

WrittenPaths == {writes[k].file.path : k \in DOMAIN writes}

ConsolidatedWritten == {CONSOLIDATED_CSV, CONSOLIDATED_XLSX} \subseteq WrittenPaths

ConsolidatedTouched == {CONSOLIDATED_CSV, CONSOLIDATED_XLSX} \cap WrittenPaths # {}

\* C1: main attempts every argument in the order given and returns
\* normally; no error in loading, scanning or exporting a file aborts the
\* run.
C1_NoErrorAbortsTheRun ==
    /\ status # "raised"
    /\ status = "returned" => Attempted = argv

\* C2: a file whose processing fails is excluded from all exports: no
\* per-file report is written for it and no row of the consolidated report
\* names it; a run of failing files only writes nothing.
C2_FailedFileIsNotExported ==
    /\ \A k \in 1..Len(argv) :
          MustFail(argv[k]) =>
              /\ \A w \in DOMAIN writes : writes[w].for # argv[k]
              /\ \A w \in DOMAIN writes :
                    writes[w].for = <<>> =>
                        \A r \in 2..Len(writes[w].file.rows) : writes[w].file.rows[r][1] # argv[k]
    /\ (\A k \in 1..Len(argv) : MustFail(argv[k])) => writes = <<>>

C2_Witness ==
    /\ status = "returned"
    /\ ConsolidatedWritten
    /\ \E k \in 1..Len(argv) : MustFail(argv[k]) /\ k < Len(argv)

C2_WitnessOnlyTxt ==
    /\ status = "returned"
    /\ argv = <<PATH_N_TXT>>
    /\ writes = <<>>

\* C3 as stated: at the end of a run the consolidated pair is written if
\* and only if at least two of the file arguments were processed
\* successfully.
C3_ConsolidatedIffTwoArgumentsSaved ==
    status = "returned" => (ConsolidatedWritten <=> Len(Saved) >= 2)

\* C3 as amended: when main returns, the consolidated pair is written if
\* and only if at least two distinct file paths were processed
\* successfully; and in no run is a consolidated file written with fewer
\* than two distinct file paths scanned.
C3_ConsolidatedIffTwoDistinctSaved ==
    /\ status = "returned" => (ConsolidatedWritten <=> Cardinality(Range(Saved)) >= 2)
    /\ ConsolidatedTouched => Cardinality(Range(Saved)) >= 2

C3_Witness ==
    /\ status = "returned"
    /\ ConsolidatedWritten
    /\ Len(Saved) > Cardinality(Range(Saved))

\* the distinct elements of a sequence, each at its first occurrence
FirstOccurrences(seq) ==
    LET keep == {k \in DOMAIN seq : \A j \in 1..(k - 1) : seq[j] # seq[k]}
    IN  [n \in 1..Cardinality(keep) |->
            seq[CHOOSE k \in keep : Cardinality({j \in keep : j < k}) = n - 1]]

\* the rows, without the header, of the per-file CSV report of a file
ReportRows(file_path) ==
    LET w == CHOOSE w \in DOMAIN writes :
                writes[w].for = file_path /\ writes[w].file.kind = "csv"
    IN  Tail(writes[w].file.rows)

RECURSIVE TaggedRows(_)
TaggedRows(files) ==
    IF files = <<>> THEN <<>>
    ELSE [k \in DOMAIN ReportRows(Head(files)) |-> <<Head(files)>> \o ReportRows(Head(files))[k]]
         \o TaggedRows(Tail(files))

\* C4: the rows of the consolidated report are the rows of the per-file
\* reports of the successfully processed files, each tagged with its file
\* path, the files in the order of the arguments and the rows of a file in
\* the order of its per-file report.
C4_ConsolidatedRowsAreThePerFileRows ==
    \A w \in DOMAIN writes :
        writes[w].for = <<>> =>
            Tail(writes[w].file.rows) = TaggedRows(FirstOccurrences(Saved))

C4_Witness ==
    /\ status = "returned"
    /\ ConsolidatedWritten
    /\ Len(Saved) = 3
    /\ Saved[1] = Saved[3]
    /\ Saved[1] # Saved[2]
    /\ ReportRows(Saved[1]) # <<>>
    /\ ReportRows(Saved[2]) # <<>>

(***************************************************************************)
(* Properties of the scan of one document (checked under SpecScan).        *)
(***************************************************************************)
ScannedDoc == disk[argv[i]].doc

Category(key) ==
    LET k == CHOOSE k \in DOMAIN result : result[k][1] = key IN result[k][2]

LinesOf(block) == IF "lines" \in DOMAIN block THEN block.lines ELSE <<>>

\* the positions <<page, block, line, span>> of the spans of a document
Positions(doc) ==
    UNION {UNION {UNION {
        {<<p, b, l, s>> : s \in 1..Len(LinesOf(doc.pages[p].blocks[b])[l].spans)} :
            l \in 1..Len(LinesOf(doc.pages[p].blocks[b]))} :
            b \in 1..Len(doc.pages[p].blocks)} :
            p \in 1..Len(doc.pages)}

Before(q, r) ==
    \E n \in 1..4 : q[n] < r[n] /\ \A m \in 1..(n - 1) : q[m] = r[m]

\* the spans of a document, each with its page number, in traversal order
Traversal(doc) ==
    LET pos == Positions(doc)
    IN  [k \in 1..Cardinality(pos) |->
            LET q == CHOOSE q \in pos : Cardinality({r \in pos : Before(r, q)}) = k - 1
            IN  [page |-> q[1],
                 span |-> LinesOf(doc.pages[q[1]].blocks[q[2]])[q[3]].spans[q[4]]]]

TextOf(ps) == IF "text" \in DOMAIN ps.span THEN strip(ps.span.text) ELSE <<>>

ColorOf(ps) == IF "color" \in DOMAIN ps.span THEN ps.span.color ELSE 0

SizeOf(ps) == IF "size" \in DOMAIN ps.span THEN ps.span.size ELSE 12

NonEmpty(ps) == TextOf(ps) # <<>>

ContainsPhrase(text) ==
    \E n \in DOMAIN PROMPT_KEYWORDS : contains(lower(text), lower(PROMPT_KEYWORDS[n]))

PhraseCount(text) ==
    Cardinality({n \in DOMAIN PROMPT_KEYWORDS : contains(lower(text), lower(PROMPT_KEYWORDS[n]))})

IsMatching(ps) == NonEmpty(ps) /\ ContainsPhrase(TextOf(ps))

IsWhite(ps) == NonEmpty(ps) /\ ColorOf(ps) = 16777215

IsSmall(ps) == NonEmpty(ps) /\ SizeOf(ps) < 1

IsSmallNotWhite(ps) == IsSmall(ps) /\ ColorOf(ps) # 16777215

EntryOf(ps) ==
    [page |-> ps.page, font_size |-> SizeOf(ps), color |-> ColorOf(ps), text |-> TextOf(ps)]

FindingOf(ps) ==
    [type |-> "text", page |-> ps.page, text |-> TextOf(ps),
     font_size |-> IF "size" \in DOMAIN ps.span THEN <<ps.span.size>> ELSE <<>>,
     color |-> IF "color" \in DOMAIN ps.span THEN <<ps.span.color>> ELSE <<>>,
     invisible |-> (ColorOf(ps) = 16777215 \/ SizeOf(ps) < 1)]

Map(F(_), seq) == [k \in DOMAIN seq |-> F(seq[k])]

\* C5: the visible-text pass emits exactly one text Finding for every span
\* whose stripped text is non-empty and contains a phrase of the pattern
\* list, none for any other span, in document traversal order.
C5_OneFindingPerMatchingSpan ==
    status = "scanned" =>
        Category("visible_matches") = Map(FindingOf, SelectSeq(Traversal(ScannedDoc), IsMatching))

\* C6: invisible_texts holds every non-empty span whose color is exactly
\* 16777215, matching a pattern or not, and no span of another color.
C6_InvisibleTextsAreTheWhiteSpans ==
    status = "scanned" =>
        Category("invisible_texts") = Map(EntryOf, SelectSeq(Traversal(ScannedDoc), IsWhite))

C6_Witness ==
    /\ status = "scanned"
    /\ \E ps \in Range(Traversal(ScannedDoc)) : IsWhite(ps) /\ ~IsMatching(ps)
    /\ \E ps \in Range(Traversal(ScannedDoc)) : NonEmpty(ps) /\ ~IsWhite(ps) /\ IsSmall(ps)

\* C7 as stated: every non-empty span whose font size is below 1 appears in
\* small_texts.
C7_EverySmallSpanInSmallTexts ==
    status = "scanned" =>
        \A ps \in Range(Traversal(ScannedDoc)) :
            IsSmall(ps) => EntryOf(ps) \in Range(Category("small_texts"))

\* C7 as amended: small_texts holds the non-empty spans whose font size is
\* below 1 and whose color is not 16777215, and only those.
C7_SmallTextsAreTheSmallNonWhiteSpans ==
    status = "scanned" =>
        Category("small_texts") = Map(EntryOf, SelectSeq(Traversal(ScannedDoc), IsSmallNotWhite))

C7_Witness ==
    /\ status = "scanned"
    /\ \E ps \in Range(Traversal(ScannedDoc)) : IsSmallNotWhite(ps)
    /\ \E ps \in Range(Traversal(ScannedDoc)) : IsSmall(ps) /\ IsWhite(ps)

\* C8: invisible_texts and small_texts never hold the same span: a span
\* that is white and below size 1 is in invisible_texts only, and every span
\* is in at most one bucket.
C8_BucketsAreDisjoint ==
    status = "scanned" =>
        /\ Range(Category("invisible_texts")) \cap Range(Category("small_texts")) = {}
        /\ \A ps \in Range(Traversal(ScannedDoc)) :
              IsWhite(ps) /\ IsSmall(ps) =>
                  /\ EntryOf(ps) \in Range(Category("invisible_texts"))
                  /\ EntryOf(ps) \notin Range(Category("small_texts"))
        /\ Len(Category("invisible_texts")) + Len(Category("small_texts"))
              <= Len(SelectSeq(Traversal(ScannedDoc), NonEmpty))

C8_Witness ==
    /\ status = "scanned"
    /\ \E ps \in Range(Traversal(ScannedDoc)) : IsWhite(ps) /\ IsSmall(ps)
    /\ Category("small_texts") # <<>>

\* the object table with every entry but the one at index n made blank
Alone(table, n) ==
    [k \in DOMAIN table |-> IF k = n THEN table[k] ELSE [raises |-> FALSE, obj |-> <<>>]]

RECURSIVE ConcatFindings(_, _)
ConcatFindings(table, n) ==
    IF n > Len(table) THEN <<>>
    ELSE (IF table[n].raises THEN <<>>
          ELSE scan_pdf_javascript([xref |-> Alone(table, n)]))
         \o ConcatFindings(table, n + 1)

\* C9: an object that raises during inspection is skipped without aborting
\* the script pass: the javascript Findings are those of every other object,
\* before and after it, in object order.
C9_RaisingObjectIsSkipped ==
    status = "scanned" =>
        Category("js_matches") = ConcatFindings(ScannedDoc.xref, 1)

C9_Witness ==
    /\ status = "scanned"
    /\ \E m, n \in DOMAIN ScannedDoc.xref :
          /\ m < n
          /\ ScannedDoc.xref[m].raises
          /\ ~ScannedDoc.xref[n].raises
          /\ \E f \in Range(Category("js_matches")) : f.xref = n - 1

\* the span a text Finding was produced from appears in a bucket
InBucket(f, entries) ==
    \E e \in Range(entries) :
        /\ e.page = f.page
        /\ e.text = f.text
        /\ e.color = (IF f.color = <<>> THEN 0 ELSE f.color[1])
        /\ e.font_size = (IF f.font_size = <<>> THEN 12 ELSE f.font_size[1])

\* C10: a text Finding carries invisible = true if and only if the span it
\* was produced from is also in invisible_texts or small_texts of the same
\* result.
C10_InvisibleFlagAgreesWithBuckets ==
    status = "scanned" =>
        \A f \in Range(Category("visible_matches")) :
            f.invisible <=>
                (InBucket(f, Category("invisible_texts")) \/ InBucket(f, Category("small_texts")))

C10_Witness ==
    /\ status = "scanned"
    /\ \E f \in Range(Category("visible_matches")) :
          f.invisible /\ InBucket(f, Category("small_texts"))
    /\ \E f \in Range(Category("visible_matches")) : ~f.invisible

====
